---- MODULE Spec2Model ----
(***************************************************************************)
(* Model of the AzDevOpsAudit pipeline (src/src/*.py): configuration       *)
(* loading, the project cache, work-item closure, pull-request id          *)
(* extraction, pull-request filtering, diff classification, the            *)
(* per-repository summary and main's loop over the work items.             *)
(*                                                                         *)
(* Python values are modelled as follows.                                  *)
(*   - a text is a sequence of character codes: 0..9 the ASCII digits,     *)
(*     WideZero + d a decimal digit of value d that is not ASCII, Letter   *)
(*     any character without a role, Space a white space that int() takes  *)
(*     (blank, tab, LF, CR, VT, FF, or one that is not ASCII), Separator   *)
(*     one of U+001C..U+001F (white space to str.strip(), not to int()),   *)
(*     Comma, Plus, Minus, Underscore                                      *)
(*   - a work-item or PR url is modelled by its trailing path segment      *)
(*     (url.split('/')[-1]); the missing or empty url is <<>>              *)
(*   - None is the string "None"                                           *)
(*   - an HTTP response is chosen when the request is made                 *)
(***************************************************************************)
EXTENDS Integers, Sequences, FiniteSets, TLC

VARIABLES
    \* ---- workitem.py: the backing work items and the configuration
    work_items,       \* work item id -> its JSON ('relations' may be absent)
    config,           \* parent_feature_ids, backlog_ids, ignore_ids
    \* ---- workitem.py: WorkItemManager and get_all_related_work_items
    project_cache,    \* self.project_cache: id -> project name
    pc,               \* position in the operation under way
    all_work_items,   \* local all_work_items of get_all_related_work_items
    call_parents,     \* parent_ids of the last get_child_work_items call
    call_children,    \* the set that call returned
    call_failed,      \* positions of call_parents whose iteration logged an error
    error_log,        \* work item ids named in the errors and warnings logged
    \* ---- workitem.py: get_pull_request_ids
    call_id,          \* work_item_id of the last get_pull_request_ids call
    work_item,        \* what get_work_item_details returned to it
    pr_ids,           \* the list it returned
    \* ---- pullrequest.py: summarize_pr_info
    pr_info_list,     \* the records handed to summarize_pr_info
    sum_pos,          \* how many of them the loop has processed
    summary,          \* local summary, then the returned value
    \* ---- commit_diff.py: get_commit_diff_stats_classified
    diff_paths,       \* the paths of the changes the diff request lists
    exclude_dirs,     \* the exclude_dirs argument
    file_resps,       \* the response to each per-file request
    diff_stats,       \* the returned statistics
    \* ---- main.py: main
    work_queue,       \* the work items the loop has still to process
    all_prs,          \* local all_prs
    commit_diffs,     \* local commit_diffs, keyed by <<work item, PR>>
    abandoned_seen,   \* the <<work item, PR>> whose fetched status was abandoned
    diff_requested,   \* the <<work item, PR>> a diff was requested for
    saved,            \* what save_results has written
    summarize_calls,  \* calls of summarize_pr_info main has made (line 136)
    \* ---- config.py: load_config, and the closure reading its result
    config_file,      \* the JSON object of the configuration file
    loaded,           \* what load_config returned or that it raised
    backlog_read,     \* what workitem.py line 70 made of config['backlog_ids']
    \* ---- workitem.py: get_project_and_base_url
    returned,         \* what its last call returned, or that it raised
    lookup_issued     \* whether that call asked the service for the project

closureVars == <<work_items, config, project_cache, pc, all_work_items,
                 call_parents, call_children, call_failed, error_log>>

prIdVars == <<call_id, work_item, pr_ids>>

sumVars == <<pr_info_list, sum_pos, summary>>

diffVars == <<diff_paths, exclude_dirs, file_resps, diff_stats>>

mainVars == <<work_queue, all_prs, commit_diffs, abandoned_seen,
              diff_requested, saved, summarize_calls>>

loadVars == <<config_file, loaded, backlog_read>>

closureVarsButPc == <<work_items, config, project_cache, all_work_items,
                      call_parents, call_children, call_failed, error_log>>

cacheVars == <<returned, lookup_issued>>

vars == <<closureVars, prIdVars, sumVars, diffVars, mainVars, loadVars,
          cacheVars>>

(***************************************************************************)
(* Bounds of the model.                                                    *)
(***************************************************************************)
MaxId == 3
MaxConfigIds == 3
MaxParents == 2
MaxPr == 2
MaxRelations == 3
MaxRecords == 2
MaxTime == 2
MaxFiles == 2
MaxLines == 2
MaxRunItems == 2
MaxPieces == 2

WorkItemIds == 1..MaxId
PrIds == 1..MaxPr

None == "None"

(***************************************************************************)
(* Generic helpers.                                                        *)
(***************************************************************************)
Range(s) == {s[i] : i \in 1..Len(s)}

Min(S) == CHOOSE x \in S : \A y \in S : x <= y

RECURSIVE SetToSeq(_)
\* the members of a set of ints in ascending order
SetToSeq(S) == IF S = {} THEN <<>> ELSE <<Min(S)>> \o SetToSeq(S \ {Min(S)})

\* the orders list(a_set) can give for a set of str: the iteration order
\* depends on the interpreter's hash seed
ListsOfSet(S) ==
    {l \in [1..Cardinality(S) -> S] : \A i, j \in 1..Cardinality(S) :
                                          l[i] = l[j] => i = j}

\* the smallest table CPython gives a set
SmallIntSlots == 8

\* the orders list(a_set) and `for x in a_set` can give for a set S of
\* ints (workitem.py 73, main.py 87); inserted holds every int the set was
\* built from, those removed since included.  CPython keeps an int in
\* slot hash mod the table's size, the next free slot if that one is
\* taken, and iterates by slot.  A non-negative int is its own hash: when
\* every int inserted is in 0 .. SmallIntSlots - 1 none collide and S comes
\* out ascending.  With a larger id the order depends on the size the table
\* has grown to and on the order of the insertions ({1, 8} gives [8, 1] in
\* a table of 8 slots and [1, 8] in one of 16), and a negative int does not
\* sit in the slot of its value ({-1, 1} gives [1, -1]): with either, any
\* order is taken as possible
IntSetOrders(S, inserted) ==
    IF \A n \in inserted : n \in 0..(SmallIntSlots - 1) THEN {SetToSeq(S)}
    ELSE ListsOfSet(S)

\* sequences over S of length at most n
SeqsUpTo(S, n) == UNION {[1..k -> S] : k \in 0..n}

(***************************************************************************)
(* Characters, str.strip() and int(text).  Python's int() takes white      *)
(* space around the number (not U+001C..U+001F, which str.strip() does     *)
(* remove), one sign before it, decimal digits of any script and single    *)
(* underscores between them; anything else raises ValueError.              *)
(***************************************************************************)
Letter == 10
Space == 11
Comma == 12
Plus == 13
Minus == 14
Underscore == 15
Separator == 16
WideZero == 20

\* the ASCII digits, the decimal digits that are not ASCII, and all of them
Digits == 0..9
AnyDigits == Digits \cup (WideZero..(WideZero + 9))

\* the value of a decimal digit
DigitValue(c) == IF c \in Digits THEN c ELSE c - WideZero

RECURSIVE StripChars(_, _)
\* text without the leading and trailing characters that are in chars
StripChars(text, chars) ==
    IF text = <<>> THEN text
    ELSE IF Head(text) \in chars THEN StripChars(Tail(text), chars)
    ELSE IF text[Len(text)] \in chars
         THEN StripChars(SubSeq(text, 1, Len(text) - 1), chars)
    ELSE text

\* str.strip(): every white space goes
Strip(text) == StripChars(text, {Space, Separator})

\* the white space int() skips around the number
IntStrip(text) == StripChars(text, {Space})

RECURSIVE DigitsValue(_)
\* the number a sequence of digits writes
DigitsValue(s) ==
    IF s = <<>> THEN 0
    ELSE 10 * DigitsValue(SubSeq(s, 1, Len(s) - 1)) + DigitValue(s[Len(s)])

\* digits with single underscores between them
IsDigitRun(s) ==
    /\ s # <<>>
    /\ s[1] \in AnyDigits
    /\ s[Len(s)] \in AnyDigits
    /\ \A i \in 1..Len(s) : s[i] \in AnyDigits \cup {Underscore}
    /\ \A i \in 1..(Len(s) - 1) : ~(s[i] = Underscore /\ s[i + 1] = Underscore)

\* the text after its sign, if it has one
Unsigned(s) == IF s # <<>> /\ s[1] \in {Plus, Minus} THEN Tail(s) ELSE s

\* sys.int_max_str_digits: int() refuses a text of more digits (the sign
\* and the underscores do not count)
IntMaxStrDigits == 4300

\* int(s) does not raise
IsDecimal(s) ==
    LET t == Unsigned(IntStrip(s))
    IN /\ IsDigitRun(t)
       /\ Len(SelectSeq(t, LAMBDA c : c \in AnyDigits)) <= IntMaxStrDigits

\* int(s), for a text it takes
DecimalValue(s) ==
    LET t == IntStrip(s)
        v == DigitsValue(SelectSeq(Unsigned(t), LAMBDA c : c \in AnyDigits))
    IN IF t # <<>> /\ t[1] = Minus THEN 0 - v ELSE v

\* the trailing url segment that names id n (ids of the model have one digit)
IdUrl(n) == <<n>>

(***************************************************************************)
(* Relations of a work item's JSON.                                        *)
(***************************************************************************)
HierarchyForward == "System.LinkTypes.Hierarchy-Forward"
HierarchyReverse == "System.LinkTypes.Hierarchy-Reverse"
ArtifactLink == "ArtifactLink"

ChildLink(n) == [rel |-> HierarchyForward, url |-> IdUrl(n), name |-> "Child"]
ParentLink(n) == [rel |-> HierarchyReverse, url |-> IdUrl(n), name |-> "Parent"]
\* a hierarchy-forward relation whose url ends in U+001F and a digit:
\* str.strip() would leave a number, int() (line 54) refuses it
BrokenChildLink ==
    [rel |-> HierarchyForward, url |-> <<Separator, 1>>, name |-> "Child"]

\* the one-level hierarchy-forward children a relations list names
HierChildren(rels) ==
    {DecimalValue(rels[i].url) : i \in {j \in 1..Len(rels) :
        rels[j].rel = HierarchyForward /\ IsDecimal(rels[j].url)}}

\* json.get('relations', [])
RelationsOrEmpty(json) ==
    IF "relations" \in DOMAIN json THEN json.relations ELSE <<>>

\* childrenOf(S) over the backing data
ChildrenOf(S) ==
    UNION {HierChildren(RelationsOrEmpty(work_items[p])) :
              p \in S \cap DOMAIN work_items}

(***************************************************************************)
(* WorkItemManager.get_work_item_project (workitem.py 12-21).  answer is   *)
(* what the service does: it names a project, names none (None or the      *)
(* empty name) or the request fails (LookupFailed).  A failed request is   *)
(* logged with the work item's id and gives None; a response that names no *)
(* project gives what it holds and logs nothing.                           *)
(***************************************************************************)
LookupFailed == "LookupFailed"

GetWorkItemProject(answer) ==
    IF answer = LookupFailed THEN [project |-> None, logged |-> TRUE]
    ELSE [project |-> answer, logged |-> FALSE]

(***************************************************************************)
(* WorkItemManager.get_project_and_base_url (workitem.py 23-34).           *)
(* project is what get_work_item_project would return (None on failure).   *)
(***************************************************************************)
\* `not project` (line 29): None and the empty name are falsy
NoProject(project) == project \in {None, ""}

GetProjectAndBaseUrlMutantRefresh(cache, work_item_id, project) ==
    IF NoProject(project)
    THEN IF work_item_id \in DOMAIN cache
         THEN [ok |-> TRUE, project |-> cache[work_item_id], cache |-> cache,
               lookup |-> TRUE]
         ELSE [ok |-> FALSE, project |-> None, cache |-> cache, lookup |-> TRUE]
    ELSE [ok |-> TRUE, project |-> project,
          cache |-> [k \in DOMAIN cache \cup {work_item_id} |->
                       IF k = work_item_id THEN project ELSE cache[k]],
          lookup |-> TRUE]

\* project is what get_work_item_project answers if it is asked (None on a
\* failure); lookup tells whether line 28 asked
GetProjectAndBaseUrl(cache, work_item_id, project) ==
    IF work_item_id \in DOMAIN cache
    THEN [ok |-> TRUE, project |-> cache[work_item_id], cache |-> cache,
          lookup |-> FALSE]
    ELSE IF NoProject(project)
         THEN [ok |-> FALSE, project |-> None, cache |-> cache, lookup |-> TRUE]
         ELSE [ok |-> TRUE, project |-> project,
               cache |-> [k \in DOMAIN cache \cup {work_item_id} |->
                            IF k = work_item_id THEN project ELSE cache[k]],
               lookup |-> TRUE]

(***************************************************************************)
(* get_child_work_items (workitem.py 36-59).                               *)
(***************************************************************************)
\* response.raise_for_status() raises for a client or server error status
RaisesForStatus(status) == status \in 400..599

RECURSIVE ScanRelations(_, _, _)
\* lines 50-55: the loop over relations; int() of a non-numeric url raises
\* and leaves the ids added so far in child_ids
ScanRelations(rels, i, child_ids) ==
    IF i > Len(rels) THEN [child_ids |-> child_ids, raised |-> FALSE]
    ELSE IF rels[i].rel = HierarchyForward
         THEN IF IsDecimal(rels[i].url)
              THEN ScanRelations(rels, i + 1,
                                 child_ids \cup {DecimalValue(rels[i].url)})
              ELSE [child_ids |-> child_ids, raised |-> TRUE]
         ELSE ScanRelations(rels, i + 1, child_ids)

\* lines 40-57: one iteration of the loop over parent_ids, try/except included.
\* resp is the pair of responses the iteration may ask for.
ParentIterationMutantAbort(st, rels, parent_id, resp, i) ==
    IF st.failed # {} THEN st
    ELSE LET p == GetProjectAndBaseUrl(st.cache, parent_id, resp.project) IN
         IF ~p.ok THEN [st EXCEPT !.failed = @ \cup {i}]
         ELSE IF RaisesForStatus(resp.status)
              THEN [st EXCEPT !.cache = p.cache, !.failed = @ \cup {i}]
              ELSE LET scan == ScanRelations(rels, 1, st.child_ids) IN
                   [child_ids |-> scan.child_ids, cache |-> p.cache,
                    failed |-> IF scan.raised THEN st.failed \cup {i}
                               ELSE st.failed]

ParentIteration(st, rels, parent_id, resp, i) ==
    LET p == GetProjectAndBaseUrl(st.cache, parent_id, resp.project) IN
    IF ~p.ok THEN [st EXCEPT !.failed = @ \cup {i}]
    ELSE IF RaisesForStatus(resp.status)
         THEN [st EXCEPT !.cache = p.cache, !.failed = @ \cup {i}]
         ELSE LET scan == ScanRelations(rels, 1, st.child_ids) IN
              [child_ids |-> scan.child_ids, cache |-> p.cache,
               failed |-> IF scan.raised THEN st.failed \cup {i}
                          ELSE st.failed]

RECURSIVE ChildLoop(_, _, _, _, _)
ChildLoop(data, parent_ids, resps, i, st) ==
    IF i > Len(parent_ids) THEN st
    ELSE ChildLoop(data, parent_ids, resps, i + 1,
                   ParentIteration(st, RelationsOrEmpty(data[parent_ids[i]]),
                                   parent_ids[i], resps[i], i))

GetChildWorkItems(data, parent_ids, resps, cache) ==
    ChildLoop(data, parent_ids, resps, 1,
              [child_ids |-> {}, cache |-> cache, failed |-> {}])

(***************************************************************************)
(* get_work_item_details (workitem.py 85-101): the JSON, or None when the  *)
(* project cannot be resolved or the status is not 200 (line 93 tests the  *)
(* status itself, so another success status gives None too).               *)
(***************************************************************************)
NoWorkItem == [found |-> FALSE]

GetWorkItemDetails(data, cache, work_item_id, resp) ==
    LET p == GetProjectAndBaseUrl(cache, work_item_id, resp.project) IN
    IF ~p.ok THEN [found |-> FALSE, cache |-> cache]
    ELSE IF resp.status # 200 THEN [found |-> FALSE, cache |-> p.cache]
         ELSE [found |-> TRUE, json |-> data[work_item_id], cache |-> p.cache]

(***************************************************************************)
(* get_pull_request_ids (workitem.py 103-142).                             *)
(***************************************************************************)
PullRequestName == "Pull Request"

RECURSIVE ScanPullRequestsMutantNoDedup(_, _, _)
ScanPullRequestsMutantNoDedup(rels, i, ids) ==
    IF i > Len(rels) THEN ids
    ELSE IF rels[i].name = PullRequestName /\ IsDecimal(rels[i].url)
         THEN ScanPullRequestsMutantNoDedup(rels, i + 1,
                  Append(ids, DecimalValue(rels[i].url)))
         ELSE ScanPullRequestsMutantNoDedup(rels, i + 1, ids)

RECURSIVE ScanPullRequests(_, _, _)
\* lines 119-135: a relation named "Pull Request" gives int(last url
\* segment), appended unless already there; a url that is no number is
\* skipped with a warning
ScanPullRequests(rels, i, ids) ==
    IF i > Len(rels) THEN ids
    ELSE IF rels[i].name = PullRequestName
         THEN IF IsDecimal(rels[i].url)
              THEN LET pr_id == DecimalValue(rels[i].url) IN
                   ScanPullRequests(rels, i + 1,
                       IF pr_id \in Range(ids) THEN ids ELSE Append(ids, pr_id))
              ELSE ScanPullRequests(rels, i + 1, ids)
         ELSE ScanPullRequests(rels, i + 1, ids)

\* lines 105-142, given what get_work_item_details returned
GetPullRequestIds(details) ==
    IF ~details.found THEN <<>>
    ELSE IF "relations" \notin DOMAIN details.json THEN <<>>
         ELSE ScanPullRequests(details.json.relations, 1, <<>>)

(***************************************************************************)
(* Creation timestamps.  The text "YYYY-MM-DDTHH:MM:SS.f..fZ" is modelled  *)
(* as [whole, frac]: whole numbers the second, frac is the digits written  *)
(* after the point.  strptime's %f reads one to six digits as a fraction   *)
(* of a second, so ".5" and ".50" are two texts of one instant; with no    *)
(* digit or more than six the text does not match the format.              *)
(***************************************************************************)
NoneValue == [none |-> TRUE]
IsNone(x) == "none" \in DOMAIN x

\* `not d` for d a dict or None: None and the empty dict are falsy
NoDict(d) == IsNone(d) \/ DOMAIN d = {}

RECURSIVE Pow10(_)
Pow10(n) == IF n = 0 THEN 1 ELSE 10 * Pow10(n - 1)

\* datetime.strptime(text, "%Y-%m-%dT%H:%M:%S.%fZ") raises: TypeError for
\* None, ValueError for a text that does not match; %f is one to six ASCII
\* digits
StrptimeRaises(text) ==
    \/ IsNone(text)
    \/ Len(text.frac) \notin 1..6
    \/ \E i \in 1..Len(text.frac) : text.frac[i] \notin Digits

\* the instant it returns otherwise, in microseconds
Strptime(text) ==
    text.whole * Pow10(6) + DigitsValue(text.frac) * Pow10(6 - Len(text.frac))

(***************************************************************************)
(* summarize_pr_info (pullrequest.py 46-93).                               *)
(***************************************************************************)
EmptyCommit == [date |-> NoneValue, hash |-> None]
CommitOf(pr_info) == [date |-> pr_info.created_date, hash |-> pr_info.commit_id]

\* lines 75-80
UpdateOldestMutantNonStrict(branch_info, pr_info) ==
    IF \/ IsNone(branch_info.oldest_commit.date)
       \/ Strptime(pr_info.created_date)
            <= Strptime(branch_info.oldest_commit.date)
    THEN [branch_info EXCEPT !.oldest_commit = CommitOf(pr_info)]
    ELSE branch_info

UpdateOldest(branch_info, pr_info) ==
    IF \/ IsNone(branch_info.oldest_commit.date)
       \/ Strptime(pr_info.created_date)
            < Strptime(branch_info.oldest_commit.date)
    THEN [branch_info EXCEPT !.oldest_commit = CommitOf(pr_info)]
    ELSE branch_info

\* lines 82-87
UpdateNewestMutantLastWins(branch_info, pr_info) ==
    [branch_info EXCEPT !.newest_commit = CommitOf(pr_info)]

UpdateNewestMutantNoInit(branch_info, pr_info) ==
    IF /\ ~IsNone(branch_info.newest_commit.date)
       /\ Strptime(pr_info.created_date)
            > Strptime(branch_info.newest_commit.date)
    THEN [branch_info EXCEPT !.newest_commit = CommitOf(pr_info)]
    ELSE branch_info

UpdateNewest(branch_info, pr_info) ==
    IF \/ IsNone(branch_info.newest_commit.date)
       \/ Strptime(pr_info.created_date)
            > Strptime(branch_info.newest_commit.date)
    THEN [branch_info EXCEPT !.newest_commit = CommitOf(pr_info)]
    ELSE branch_info

\* f with key k set to v (f[k] = v in Python)
Put(f, k, v) == [x \in DOMAIN f \cup {k} |-> IF x = k THEN v ELSE f[x]]

\* line 72 raises for this element of pr_info_list
RecordRaises(pr_info) ==
    ~NoDict(pr_info) /\ StrptimeRaises(pr_info.created_date)

\* lines 54-69: what the body has done to the local summary when line 72
\* raises; the exception leaves summarize_pr_info and the local is lost
SummarizeUntilRaise(sum, pr_info) ==
    LET repo == pr_info.repository
        entry == IF repo \in DOMAIN sum THEN sum[repo]
                 ELSE [branches |-> <<>>, reviewers |-> {}]
        branch == pr_info.target_branch
        branch_info == IF branch \in DOMAIN entry.branches
                       THEN entry.branches[branch]
                       ELSE [oldest_commit |-> EmptyCommit,
                             newest_commit |-> EmptyCommit]
    IN Put(sum, repo,
           [branches |-> Put(entry.branches, branch, branch_info),
            reviewers |-> entry.reviewers \cup Range(pr_info.reviewers)])

\* lines 51-87: the body of the loop for one element of pr_info_list that
\* line 72 takes
SummarizeRecord(sum, pr_info) ==
    IF NoDict(pr_info) THEN sum
    ELSE LET repo == pr_info.repository
             entry == IF repo \in DOMAIN sum THEN sum[repo]
                      ELSE [branches |-> <<>>, reviewers |-> {}]
             branch == pr_info.target_branch
             branch_info == IF branch \in DOMAIN entry.branches
                            THEN entry.branches[branch]
                            ELSE [oldest_commit |-> EmptyCommit,
                                  newest_commit |-> EmptyCommit]
         IN Put(sum, repo,
                [branches |-> Put(entry.branches, branch,
                                  UpdateNewest(UpdateOldest(branch_info, pr_info),
                                               pr_info)),
                 reviewers |-> entry.reviewers \cup Range(pr_info.reviewers)])

RECURSIVE SummarizeFold(_, _)
\* the loop of lines 50-87 over a whole list
SummarizeFold(sum, list) ==
    IF list = <<>> THEN sum
    ELSE SummarizeFold(SummarizeRecord(sum, Head(list)), Tail(list))

(***************************************************************************)
(* get_commit_diff_stats_classified (commit_diff.py 14-101).  A path and   *)
(* an exclude dir are sequences of characters.                             *)
(***************************************************************************)
NoStats == [added |-> 0, deleted |-> 0, modified |-> 0, files |-> <<>>]

RECURSIVE RstripSlash(_)
\* ex_dir.rstrip('/')
RstripSlash(text) ==
    IF text # <<>> /\ text[Len(text)] = "/"
    THEN RstripSlash(SubSeq(text, 1, Len(text) - 1))
    ELSE text

\* text.startswith(prefix)
StartsWith(text, prefix) ==
    Len(prefix) <= Len(text) /\ SubSeq(text, 1, Len(prefix)) = prefix

\* line 59
Excluded(path, dirs) ==
    \E k \in 1..Len(dirs) : StartsWith(path, RstripSlash(dirs[k]) \o <<"/">>)

\* lines 69-92: a per-file response with status 200
ClassifyFileMutantAddedOnly(acc, path, add, delete) ==
    LET kind == IF add > 0 /\ delete > 0 THEN "modified"
                ELSE IF add > 0 THEN "added"
                ELSE IF delete > 0 THEN "deleted" ELSE "unchanged"
    IN [added |-> acc.added + (IF kind = "added" THEN add ELSE 0),
        deleted |-> acc.deleted + (IF kind = "deleted" THEN delete ELSE 0),
        modified |-> acc.modified + (IF kind = "modified" THEN add ELSE 0),
        files |-> Append(acc.files, [path |-> path, added |-> add,
                                     deleted |-> delete, type |-> kind])]

ClassifyFile(acc, path, add, delete) ==
    LET kind == IF add > 0 /\ delete > 0 THEN "modified"
                ELSE IF add > 0 THEN "added"
                ELSE IF delete > 0 THEN "deleted" ELSE "unchanged"
    IN [added |-> acc.added + (IF kind = "added" THEN add ELSE 0),
        deleted |-> acc.deleted + (IF kind = "deleted" THEN delete ELSE 0),
        modified |-> acc.modified + (IF kind = "modified" THEN add + delete ELSE 0),
        files |-> Append(acc.files, [path |-> path, added |-> add,
                                     deleted |-> delete, type |-> kind])]

FileIterationMutantAbort(acc, path, resp, dirs) ==
    IF Excluded(path, dirs) THEN acc
    ELSE IF resp.status = 200
         THEN ClassifyFile(acc, path, resp.addLineCount, resp.deleteLineCount)
         ELSE NoStats

\* lines 57-94: one iteration of the loop over file_paths
FileIteration(acc, path, resp, dirs) ==
    IF Excluded(path, dirs) THEN acc
    ELSE IF resp.status = 200
         THEN ClassifyFile(acc, path, resp.addLineCount, resp.deleteLineCount)
         ELSE acc

RECURSIVE FileLoop(_, _, _, _, _)
FileLoop(paths, resps, dirs, i, acc) ==
    IF i > Len(paths) THEN acc
    ELSE FileLoop(paths, resps, dirs, i + 1,
                  FileIteration(acc, paths[i], resps[i], dirs))

\* lines 52-101, once the list of changes has been fetched
GetCommitDiffStatsClassified(paths, resps, dirs) ==
    FileLoop(paths, resps, dirs, 1, NoStats)

(***************************************************************************)
(* extract_pr_info (pullrequest.py 23-44).  A ref name and a branch name   *)
(* are sequences of characters; title and url are copied through and left  *)
(* out.                                                                    *)
(***************************************************************************)
\* the text 'refs/heads/'
RefsHeads == <<"r", "e", "f", "s", "/", "h", "e", "a", "d", "s", "/">>

RECURSIVE StripRefsHeads(_)
\* targetRefName.replace('refs/heads/', ''): every occurrence met from left
\* to right is cut, wherever in the text it starts; the result is not
\* scanned again
StripRefsHeads(ref) ==
    IF ref = <<>> THEN ref
    ELSE IF StartsWith(ref, RefsHeads)
         THEN StripRefsHeads(SubSeq(ref, Len(RefsHeads) + 1, Len(ref)))
         ELSE <<Head(ref)>> \o StripRefsHeads(Tail(ref))

\* dict.get(key, default)
DictGet(dict, key, default) == IF key \in DOMAIN dict THEN dict[key] ELSE default

\* pr_details.get('repository', {}).get('name')
RepositoryName(pr_details) ==
    DictGet(DictGet(pr_details, "repository", <<>>), "name", None)

\* `if repository` (main.py 112): None and the empty name are falsy
NoRepository(name) == name \in {None, ""}

\* pr_details.get('lastMergeSourceCommit', {}).get('commitId')
SourceCommitId(pr_details) ==
    DictGet(DictGet(pr_details, "lastMergeSourceCommit", <<>>), "commitId", None)

\* lines 32-44: every field is read with get, so an absent one is None (or
\* the default given)
ExtractedFields(pr_details) ==
    LET reviewers == DictGet(pr_details, "reviewers", <<>>) IN
    [repository |-> RepositoryName(pr_details),
     target_branch |-> StripRefsHeads(DictGet(pr_details, "targetRefName", <<>>)),
     created_date |-> DictGet(pr_details, "creationDate", NoneValue),
     commit_id |-> SourceCommitId(pr_details),
     reviewers |-> [i \in 1..Len(reviewers) |->
                      DictGet(reviewers[i], "displayName", None)],
     status |-> DictGet(pr_details, "status", None)]

ExtractPrInfoMutantKeepAbandoned(pr_details) ==
    IF NoDict(pr_details) THEN NoneValue ELSE ExtractedFields(pr_details)

ExtractPrInfo(pr_details) ==
    IF NoDict(pr_details) THEN NoneValue
    ELSE IF DictGet(pr_details, "status", None) = "abandoned" THEN NoneValue
         ELSE ExtractedFields(pr_details)

\* the responses a request can get: project is what get_work_item_project
\* returns if asked (None when the lookup fails or names no project; either
\* way the caller's error record names the work item), status that of the
\* request for the work item
Projects == {"ProjA"}
Responses ==
    [project : Projects, status : {200, 201, 500}]
        \cup {[project |-> None, status |-> 200]}

\* the responses the closure's requests get: get_child_work_items takes a
\* 201 answer as it takes a 200 one, so the closure is run on the others
ClosureResponses == {r \in Responses : r.status # 201}

(***************************************************************************)
(* The backing data: work items form a forest under the hierarchy link     *)
(* (each has at most one parent).  A child lists its parent as             *)
(* a Hierarchy-Reverse relation, a parent its children as Hierarchy-Forward*)
(* relations; one work item may carry a hierarchy-forward relation with no *)
(* url, before or after its other relations.                               *)
(***************************************************************************)
\* parent_of[c] is the parent of c, 0 for a root; a work item is created
\* before its children, so a parent has the smaller id
Forests ==
    {f \in [WorkItemIds -> WorkItemIds \cup {0}] :
        \A n \in WorkItemIds : f[n] < n}

RECURSIVE ChildLinks(_)
ChildLinks(ids) ==
    IF ids = <<>> THEN <<>> ELSE <<ChildLink(ids[1])>> \o ChildLinks(Tail(ids))

BrokenAt == {"none", "first", "last"}

RelationsOf(parent_of, broken, n) ==
    LET kids == SetToSeq({c \in WorkItemIds : parent_of[c] = n})
        up == IF parent_of[n] = 0 THEN <<>> ELSE <<ParentLink(parent_of[n])>>
        own == up \o ChildLinks(kids)
    IN CASE broken[n] = "first" -> <<BrokenChildLink>> \o own
         [] broken[n] = "last" -> own \o <<BrokenChildLink>>
         [] OTHER -> own

NoneBroken == [n \in WorkItemIds |-> "none"]

\* at most one work item carries the broken relation
BrokenChoices ==
    {b \in [WorkItemIds -> BrokenAt] :
        Cardinality({n \in WorkItemIds : b[n] # "none"}) <= 1}

\* the three id lists of a configuration, MaxConfigIds ids in all
Configs ==
    {[parent_feature_ids |-> SetToSeq(P), backlog_ids |-> SetToSeq(B),
      ignore_ids |-> SetToSeq(I)] :
        <<P, B, I>> \in {t \in (SUBSET WorkItemIds) \X (SUBSET WorkItemIds)
                                   \X (SUBSET WorkItemIds) :
            Cardinality(t[1]) + Cardinality(t[2]) + Cardinality(t[3])
                <= MaxConfigIds}}

InitPrIdsIdle ==
    /\ call_id = 0
    /\ work_item = NoWorkItem
    /\ pr_ids = <<>>

InitDiffIdle ==
    /\ diff_paths = <<>>
    /\ exclude_dirs = <<>>
    /\ file_resps = <<>>
    /\ diff_stats = NoStats

NothingSaved == [written |-> FALSE]

InitMainIdle ==
    /\ work_queue = <<>>
    /\ all_prs = <<>>
    /\ commit_diffs = <<>>
    /\ abandoned_seen = {}
    /\ diff_requested = {}
    /\ saved = NothingSaved
    /\ summarize_calls = 0

NotLoaded == [ok |-> FALSE]
NothingRead == [raised |-> FALSE, members |-> {}]

InitLoadIdle ==
    /\ config_file = <<>>
    /\ loaded = NotLoaded
    /\ backlog_read = NothingRead

NothingReturned == [raised |-> FALSE, project |-> None]

InitCacheIdle ==
    /\ returned = NothingReturned
    /\ lookup_issued = FALSE

InitSummaryIdle ==
    /\ pr_info_list = <<>>
    /\ sum_pos = 0
    /\ summary = <<>>

NoConfig == [parent_feature_ids |-> <<>>, backlog_ids |-> <<>>, ignore_ids |-> <<>>]

InitClosure ==
    /\ \E f \in Forests :
          work_items = [n \in WorkItemIds |->
                          [id |-> n, relations |-> RelationsOf(f, NoneBroken, n)]]
    /\ config \in Configs
    /\ project_cache = <<>>
    /\ pc = "features"
    /\ all_work_items = {}
    /\ call_parents = <<>>
    /\ call_children = {}
    /\ call_failed = {}
    /\ error_log = {}
    /\ InitPrIdsIdle
    /\ InitSummaryIdle
    /\ InitDiffIdle
    /\ InitMainIdle
    /\ InitLoadIdle
    /\ InitCacheIdle

(***************************************************************************)
(* get_all_related_work_items (workitem.py 61-83), one action per          *)
(* statement group.                                                        *)
(***************************************************************************)
\* lines 63-70: all_work_items once the children of the features and the
\* backlog ids are in; line 73 takes current_items from it
CollectedMutantSeeds(feature_children, cfg) ==
    Range(cfg.parent_feature_ids) \cup Range(cfg.backlog_ids)

Collected(feature_children, cfg) ==
    feature_children \cup Range(cfg.backlog_ids)

\* lines 63-70: children of the configured features, then the backlog ids
FeatureChildren ==
    /\ pc = "features"
    /\ "backlog_ids" \in DOMAIN config
    /\ \E resps \in [1..Len(config.parent_feature_ids) -> ClosureResponses] :
         LET r == GetChildWorkItems(work_items, config.parent_feature_ids,
                                    resps, project_cache)
         IN /\ all_work_items' = Collected(r.child_ids, config)
            /\ project_cache' = r.cache
            /\ call_parents' = config.parent_feature_ids
            /\ call_children' = r.child_ids
            /\ call_failed' = r.failed
            /\ error_log' = error_log \cup
                   {config.parent_feature_ids[i] : i \in r.failed}
    /\ pc' = "children"
    /\ UNCHANGED <<cacheVars, loadVars, work_items, config, prIdVars, sumVars, diffVars, mainVars>>

\* lines 77-83: add the features, drop the ignored ids
AllRelatedResultMutantOrder(items, cfg) ==
    (items \ Range(cfg.ignore_ids)) \cup Range(cfg.parent_feature_ids)

AllRelatedResult(items, cfg) ==
    (items \cup Range(cfg.parent_feature_ids)) \ Range(cfg.ignore_ids)

\* lines 72-83: children of everything collected so far, then the features
\* added, the ignored ids dropped and the set returned
ChildItems ==
    /\ pc = "children"
    /\ \E current_items \in IntSetOrders(all_work_items, all_work_items),
          resps \in [1..Cardinality(all_work_items) -> ClosureResponses] :
         LET r == GetChildWorkItems(work_items, current_items, resps,
                                    project_cache)
         IN /\ all_work_items' =
                   AllRelatedResult(all_work_items \cup r.child_ids, config)
            /\ project_cache' = r.cache
            /\ call_parents' = current_items
            /\ call_children' = r.child_ids
            /\ call_failed' = r.failed
            /\ error_log' = error_log \cup {current_items[i] : i \in r.failed}
    /\ pc' = "closure_done"
    /\ UNCHANGED <<cacheVars, loadVars, work_items, config, prIdVars, sumVars, diffVars, mainVars>>

NextClosure == FeatureChildren \/ ChildItems

SpecClosure == InitClosure /\ [][NextClosure]_vars

(***************************************************************************)
(* One call of get_child_work_items on a list of parent ids.               *)
(***************************************************************************)
InitChildren ==
    /\ \E f \in Forests, b \in BrokenChoices :
          work_items = [n \in WorkItemIds |->
                          [id |-> n, relations |-> RelationsOf(f, b, n)]]
    /\ config = NoConfig
    /\ project_cache = <<>>
    /\ pc = "call"
    /\ all_work_items = {}
    /\ call_parents \in SeqsUpTo(WorkItemIds, MaxParents)
    /\ call_children = {}
    /\ call_failed = {}
    /\ error_log = {}
    /\ InitPrIdsIdle
    /\ InitSummaryIdle
    /\ InitDiffIdle
    /\ InitMainIdle
    /\ InitLoadIdle
    /\ InitCacheIdle

CallGetChildWorkItems ==
    /\ pc = "call"
    /\ \E resps \in [1..Len(call_parents) -> Responses] :
         LET r == GetChildWorkItems(work_items, call_parents, resps,
                                    project_cache)
         IN /\ project_cache' = r.cache
            /\ call_children' = r.child_ids
            /\ call_failed' = r.failed
            /\ error_log' = error_log \cup {call_parents[i] : i \in r.failed}
    /\ pc' = "returned"
    /\ UNCHANGED <<cacheVars, loadVars, work_items, config, all_work_items, call_parents, prIdVars, sumVars, diffVars, mainVars>>

NextChildren == CallGetChildWorkItems

SpecChildren == InitChildren /\ [][NextChildren]_vars

(***************************************************************************)
(* One call of get_pull_request_ids on work item 1, whose relations are    *)
(* any short list of pull-request links (with a numeric, a non-numeric or  *)
(* no url) and other links, or are absent.                                 *)
(***************************************************************************)
PullRequestLink(url) == [rel |-> ArtifactLink, url |-> url, name |-> PullRequestName]
CommitLink == [rel |-> ArtifactLink, url |-> <<1>>, name |-> "Fixed in Commit"]

RelationChoices ==
    {PullRequestLink(IdUrl(n)) : n \in PrIds}
        \cup {PullRequestLink(<<Letter>>), PullRequestLink(<<Plus, 1>>),
              PullRequestLink(<<Separator, 1>>), CommitLink}

WorkItemJsons(n) ==
    {[id |-> n]} \cup
    {[id |-> n, relations |-> r] : r \in SeqsUpTo(RelationChoices, MaxRelations)}

InitPrIds ==
    /\ \E j \in WorkItemJsons(1) :
          work_items = [n \in WorkItemIds |-> IF n = 1 THEN j ELSE [id |-> n]]
    /\ config = NoConfig
    /\ project_cache = <<>>
    /\ pc = "call_pr_ids"
    /\ all_work_items = {}
    /\ call_parents = <<>>
    /\ call_children = {}
    /\ call_failed = {}
    /\ error_log = {}
    /\ call_id = 1
    /\ work_item = NoWorkItem
    /\ pr_ids = <<>>
    /\ InitSummaryIdle
    /\ InitDiffIdle
    /\ InitMainIdle
    /\ InitLoadIdle
    /\ InitCacheIdle

CallGetPullRequestIds ==
    /\ pc = "call_pr_ids"
    /\ \E resp \in Responses :
         LET d == GetWorkItemDetails(work_items, project_cache, call_id, resp)
         IN /\ work_item' = IF d.found THEN [found |-> TRUE, json |-> d.json]
                                      ELSE NoWorkItem
            /\ project_cache' = d.cache
            /\ error_log' = IF d.found THEN error_log
                                       ELSE error_log \cup {call_id}
            /\ pr_ids' = GetPullRequestIds(d)
    /\ pc' = "pr_ids_returned"
    /\ UNCHANGED <<cacheVars, loadVars, work_items, config, all_work_items, call_parents,
                   call_children, call_failed, call_id, sumVars, diffVars, mainVars>>

NextPrIds == CallGetPullRequestIds

SpecPrIds == InitPrIds /\ [][NextPrIds]_vars

(***************************************************************************)
(* summarize_pr_info on any short list of records: one step per record,    *)
(* then the conversion of the reviewer sets (lines 89-93).                 *)
(***************************************************************************)
Targets == {<<"svc", <<"m", "a", "i", "n">>>>, <<"svc", <<"d", "e", "v">>>>}
FracChoices == {<<5>>, <<5, 0>>}
\* the last two have no digit after the point, and one that is not ASCII
Timestamps ==
    [whole : 1..MaxTime, frac : FracChoices]
        \cup {[whole |-> 1, frac |-> <<>>], [whole |-> 1, frac |-> <<WideZero + 5>>]}
ReviewerLists == {<<>>, <<"bob", "alice">>}

\* the record of the i-th pull request: its head commit is its own, or
\* None when the details had no lastMergeSourceCommit
PrInfo(i, target, date, reviewers, has_commit) ==
    [repository |-> target[1], target_branch |-> target[2],
     created_date |-> date,
     commit_id |-> IF has_commit THEN ToString(i) ELSE None,
     reviewers |-> reviewers, status |-> "active"]


\* the lists of k entries, a record or None each; the records without a
\* commit id have no reviewers and are of the first second, on one branch
PrInfoLists(k) ==
    {[i \in 1..k |-> IF c[i].skip THEN NoneValue
                     ELSE PrInfo(i, c[i].target, c[i].date, c[i].reviewers,
                                 c[i].has_commit)] :
        c \in [1..k -> [skip : {FALSE}, target : Targets, date : Timestamps,
                        reviewers : ReviewerLists, has_commit : {TRUE}]
                       \cup [skip : {FALSE},
                             target : {<<"svc", <<"m", "a", "i", "n">>>>},
                             date : [whole : {1}, frac : FracChoices],
                             reviewers : {<<>>}, has_commit : {FALSE}]
                       \cup {[skip |-> TRUE]}]}

InitSummary ==
    /\ work_items = [n \in WorkItemIds |-> [id |-> n]]
    /\ config = NoConfig
    /\ project_cache = <<>>
    /\ pc = "summarize"
    /\ all_work_items = {}
    /\ call_parents = <<>>
    /\ call_children = {}
    /\ call_failed = {}
    /\ error_log = {}
    /\ InitPrIdsIdle
    /\ \E k \in 0..MaxRecords : pr_info_list \in PrInfoLists(k)
    /\ sum_pos = 0
    /\ summary = <<>>
    /\ InitDiffIdle
    /\ InitMainIdle
    /\ InitLoadIdle
    /\ InitCacheIdle

SummarizeStep ==
    /\ pc = "summarize"
    /\ sum_pos < Len(pr_info_list)
    /\ ~RecordRaises(pr_info_list[sum_pos + 1])
    /\ summary' = SummarizeRecord(summary, pr_info_list[sum_pos + 1])
    /\ sum_pos' = sum_pos + 1
    /\ UNCHANGED <<cacheVars, loadVars, closureVars, prIdVars, pr_info_list, diffVars, mainVars>>

\* line 72 raising: summarize_pr_info returns nothing; in main the
\* exception passes line 139 and is logged and raised again (main.py
\* 142-144), the record naming no work item
SummarizeRaises ==
    /\ pc = "summarize"
    /\ sum_pos < Len(pr_info_list)
    /\ RecordRaises(pr_info_list[sum_pos + 1])
    /\ summary' = SummarizeUntilRaise(summary, pr_info_list[sum_pos + 1])
    /\ pc' = "summarize_raised"
    /\ UNCHANGED <<cacheVars, loadVars, work_items, config, project_cache,
                   all_work_items, call_parents, call_children, call_failed,
                   error_log, prIdVars, pr_info_list, sum_pos, diffVars,
                   mainVars>>

\* lines 89-93
SummarizeReturn ==
    /\ pc = "summarize"
    /\ sum_pos = Len(pr_info_list)
    /\ summary' \in {s \in [DOMAIN summary ->
                                UNION {[branches : {summary[r].branches},
                                        reviewers : ListsOfSet(summary[r].reviewers)] :
                                       r \in DOMAIN summary}] :
                       \A r \in DOMAIN summary :
                           /\ s[r].branches = summary[r].branches
                           /\ Range(s[r].reviewers) = summary[r].reviewers}
    /\ pc' = "summarized"
    /\ UNCHANGED <<cacheVars, loadVars, work_items, config, project_cache, all_work_items,
                   call_parents, call_children, call_failed, error_log,
                   prIdVars, pr_info_list, sum_pos, diffVars, mainVars>>

NextSummary == SummarizeStep \/ SummarizeRaises \/ SummarizeReturn

SpecSummary == InitSummary /\ [][NextSummary]_vars

(***************************************************************************)
(* One call of get_commit_diff_stats_classified whose list of changes was  *)
(* fetched: any short list of paths, any response to each per-file         *)
(* request.                                                                *)
(***************************************************************************)
Paths == {<<"d", "/", "r">>, <<"d", "x", "/", "r">>, <<"r">>}
ExcludeChoices == {<<>>, <<<<"d">>>>, <<<<"d", "/">>>>}
FileResponses ==
    [status : {200}, addLineCount : 0..MaxLines, deleteLineCount : 0..MaxLines]
        \cup {[status |-> 404, addLineCount |-> 0, deleteLineCount |-> 0]}

InitDiff ==
    /\ work_items = [n \in WorkItemIds |-> [id |-> n]]
    /\ config = NoConfig
    /\ project_cache = <<>>
    /\ pc = "call_diff"
    /\ all_work_items = {}
    /\ call_parents = <<>>
    /\ call_children = {}
    /\ call_failed = {}
    /\ error_log = {}
    /\ InitPrIdsIdle
    /\ InitSummaryIdle
    /\ diff_paths \in SeqsUpTo(Paths, MaxFiles)
    /\ exclude_dirs \in ExcludeChoices
    /\ file_resps = <<>>
    /\ diff_stats = NoStats
    /\ InitMainIdle
    /\ InitLoadIdle
    /\ InitCacheIdle

CallDiffStats ==
    /\ pc = "call_diff"
    /\ \E resps \in [1..Len(diff_paths) -> FileResponses] :
         /\ file_resps' = resps
         /\ diff_stats' = GetCommitDiffStatsClassified(diff_paths, resps,
                                                       exclude_dirs)
    /\ pc' = "diff_returned"
    /\ UNCHANGED <<cacheVars, loadVars, work_items, config, project_cache, all_work_items,
                   call_parents, call_children, call_failed, error_log,
                   prIdVars, sumVars, diff_paths, exclude_dirs, mainVars>>

NextDiff == CallDiffStats

SpecDiff == InitDiff /\ [][NextDiff]_vars

(***************************************************************************)
(* main (main.py 50-144) after the setup: the closure, the loop over the   *)
(* work items, the summary and save_results.                               *)
(***************************************************************************)
PrDetails(status, with_repository) ==
    LET base == [status |-> status,
                 targetRefName |-> RefsHeads \o <<"m", "a", "i", "n">>,
                 creationDate |-> [whole |-> 1, frac |-> <<0, 0, 0>>],
                 lastMergeSourceCommit |-> [commitId |-> "c1"],
                 lastMergeTargetCommit |-> [commitId |-> "c0"],
                 reviewers |-> <<[displayName |-> "alice"]>>]
    IN IF with_repository
       THEN [k \in DOMAIN base \cup {"repository"} |->
                IF k = "repository" THEN [name |-> "svc"] ELSE base[k]]
       ELSE base

\* pull request details whose creation date has no digit after the point
PrDetailsBadDate ==
    [PrDetails("active", TRUE) EXCEPT !.creationDate = [whole |-> 1, frac |-> <<>>]]

\* pull request details without lastMergeSourceCommit
PrDetailsNoCommit ==
    LET full == PrDetails("active", TRUE)
    IN [k \in DOMAIN full \ {"lastMergeSourceCommit"} |-> full[k]]

\* pull request details whose repository has the empty name
PrDetailsEmptyName ==
    [PrDetails("active", TRUE) EXCEPT !.repository = [name |-> ""]]

\* what the loop meets for one pull request: the details fetched (None on a
\* failure, which logs the pull request's id only) and whether the diff
\* request raises (lines 128-129 then log the work item and the pull request)
PrOutcomes ==
    [details : {PrDetails("active", TRUE)}, diff : {"ok", "error"}]
        \cup [details : {PrDetails("abandoned", TRUE), PrDetails("active", FALSE),
                         PrDetailsBadDate, PrDetailsNoCommit,
                         PrDetailsEmptyName, <<>>, NoneValue},
              diff : {"ok"}]

\* the statistics of the diff requests that succeed
SampleStats ==
    GetCommitDiffStatsClassified(
        <<<<"r">>>>,
        <<[status |-> 200, addLineCount |-> 1, deleteLineCount |-> 0]>>, <<>>)

\* lines 98-131: one iteration of the loop over pr_ids
PrIteration(acc, work_item_id, pr_id, out) ==
    IF NoDict(out.details) THEN acc
    ELSE LET pr_info == ExtractPrInfo(out.details)
             key == <<work_item_id, pr_id>>
             seen == IF DictGet(out.details, "status", None) = "abandoned"
                     THEN acc.abandoned_seen \cup {key}
                     ELSE acc.abandoned_seen
         IN IF NoDict(pr_info) THEN [acc EXCEPT !.abandoned_seen = seen]
            ELSE LET kept == [acc EXCEPT
                                !.abandoned_seen = seen,
                                !.pr_info_list = Append(@, pr_info),
                                !.all_prs = Append(@,
                                    [work_item_id |-> work_item_id,
                                     pull_request |-> out.details])]
                 IN IF NoRepository(RepositoryName(out.details)) THEN kept
                    ELSE IF out.diff = "error"
                         THEN [kept EXCEPT
                                 !.diff_requested = @ \cup {key},
                                 !.error_log = @ \cup {work_item_id}]
                         ELSE [kept EXCEPT
                                 !.diff_requested = @ \cup {key},
                                 !.commit_diffs = Put(@, key,
                                     [work_item_id |-> work_item_id,
                                      pr_id |-> pr_id,
                                      repository |-> RepositoryName(out.details),
                                      diff_stats |-> SampleStats])]

RECURSIVE PrLoop(_, _, _, _, _)
PrLoop(acc, work_item_id, ids, outs, i) ==
    IF i > Len(ids) THEN acc
    ELSE PrLoop(PrIteration(acc, work_item_id, ids[i], outs[i]),
                work_item_id, ids, outs, i + 1)

\* the runs of the model: the first MaxRunItems work items may be linked in
\* the hierarchy and be configured, and the first one or two of them carry
\* a link to pull request 1
RunIds == 1..MaxRunItems
LinkedChoices == {{}, {1}, {1, 2}}

RunWorkItems ==
    {[n \in WorkItemIds |->
        [id |-> n,
         relations |-> RelationsOf(f, NoneBroken, n)
             \o (IF n \in linked THEN <<PullRequestLink(IdUrl(1))>> ELSE <<>>)]] :
        f \in {g \in Forests : \A n \in WorkItemIds \ RunIds : g[n] = 0},
        linked \in LinkedChoices}

\* the last ones are what load_config makes of a file that names its
\* backlog under backlog_item_ids: they have no backlog_ids
RunConfigs ==
    {[parent_feature_ids |-> p, backlog_ids |-> SetToSeq(B), ignore_ids |-> <<>>] :
        p \in {<<>>, <<1>>}, B \in {1..k : k \in 0..MaxRunItems}}
      \cup {[parent_feature_ids |-> p, backlog_item_ids |-> <<1>>,
              ignore_ids |-> <<>>] : p \in {<<>>, <<1>>}}

Init ==
    /\ work_items \in RunWorkItems
    /\ config \in RunConfigs
    /\ project_cache = <<>>
    /\ pc = "features"
    /\ all_work_items = {}
    /\ call_parents = <<>>
    /\ call_children = {}
    /\ call_failed = {}
    /\ error_log = {}
    /\ InitPrIdsIdle
    /\ InitSummaryIdle
    /\ InitDiffIdle
    /\ InitMainIdle
    /\ InitLoadIdle
    /\ InitCacheIdle

\* workitem.py 63-70 with config['backlog_ids'] raising KeyError after the
\* children of the features were fetched and added to all_work_items (line
\* 67), then main.py 142-144
ClosureRaises ==
    /\ pc = "features"
    /\ "backlog_ids" \notin DOMAIN config
    /\ \E resps \in [1..Len(config.parent_feature_ids) -> ClosureResponses] :
         LET r == GetChildWorkItems(work_items, config.parent_feature_ids,
                                    resps, project_cache)
         IN /\ all_work_items' = r.child_ids
            /\ project_cache' = r.cache
            /\ call_parents' = config.parent_feature_ids
            /\ call_children' = r.child_ids
            /\ call_failed' = r.failed
            /\ error_log' = error_log \cup
                   {config.parent_feature_ids[i] : i \in r.failed}
    /\ pc' = "aborted"
    /\ UNCHANGED <<cacheVars, loadVars, work_items, config,
                   prIdVars, sumVars, diffVars, mainVars>>

\* lines 72-87: the order in which the loop will take the work items
BeginLoop ==
    /\ pc = "closure_done"
    /\ work_queue' \in IntSetOrders(all_work_items,
                                     all_work_items \cup Range(config.ignore_ids))
    /\ pc' = "loop"
    /\ UNCHANGED <<cacheVars, loadVars, work_items, config, project_cache, all_work_items,
                   call_parents, call_children, call_failed, error_log,
                   prIdVars, sumVars, diffVars, all_prs, commit_diffs,
                   abandoned_seen, diff_requested, saved, summarize_calls>>

\* lines 87-133, the project lookup of line 91 succeeding; the details not
\* fetched are logged with the work item's id (workitem.py 100 or 110)
ProcessWorkItem ==
    /\ pc = "loop"
    /\ work_queue # <<>>
    /\ LET work_item_id == Head(work_queue) IN
       \E resp \in Responses :
         LET p == GetProjectAndBaseUrl(project_cache, work_item_id, resp.project)
             d == GetWorkItemDetails(work_items, p.cache, work_item_id, resp)
             ids == GetPullRequestIds(d)
         IN /\ p.ok
            /\ \E outs \in [1..Len(ids) -> PrOutcomes] :
                 LET r == PrLoop([pr_info_list |-> pr_info_list,
                                  all_prs |-> all_prs,
                                  commit_diffs |-> commit_diffs,
                                  abandoned_seen |-> abandoned_seen,
                                  diff_requested |-> diff_requested,
                                  error_log |->
                                      IF d.found THEN error_log
                                      ELSE error_log \cup {work_item_id}],
                                 work_item_id, ids, outs, 1)
                 IN /\ pr_info_list' = r.pr_info_list
                    /\ all_prs' = r.all_prs
                    /\ commit_diffs' = r.commit_diffs
                    /\ abandoned_seen' = r.abandoned_seen
                    /\ diff_requested' = r.diff_requested
                    /\ error_log' = r.error_log
            /\ project_cache' = d.cache
            /\ call_id' = work_item_id
            /\ work_item' = IF d.found THEN [found |-> TRUE, json |-> d.json]
                                      ELSE NoWorkItem
            /\ pr_ids' = ids
    /\ work_queue' = Tail(work_queue)
    /\ UNCHANGED <<cacheVars, loadVars, work_items, config, pc, all_work_items, call_parents,
                   call_children, call_failed, sum_pos, summary, diffVars, saved,
                   summarize_calls>>

AbortOnProjectMutantSavePartial ==
    /\ pc = "loop"
    /\ work_queue # <<>>
    /\ \E resp \in Responses :
         ~GetProjectAndBaseUrl(project_cache, Head(work_queue), resp.project).ok
    /\ pc' = "aborted"
    /\ error_log' = error_log \cup {Head(work_queue)}
    /\ saved' = [written |-> TRUE, summary |-> summary, all_prs |-> all_prs,
                 commit_diffs |-> commit_diffs]
    /\ UNCHANGED <<cacheVars, loadVars, work_items, config, project_cache,
                   all_work_items, call_parents, call_children, call_failed,
                   prIdVars, sumVars, diffVars, work_queue, all_prs,
                   commit_diffs, abandoned_seen, diff_requested,
                   summarize_calls>>

\* line 91 raising: workitem.py 29-30, then main.py 142-144, whose error
\* record carries the exception's message and with it the work item's id
AbortOnProject ==
    /\ pc = "loop"
    /\ work_queue # <<>>
    /\ \E resp \in Responses :
         ~GetProjectAndBaseUrl(project_cache, Head(work_queue), resp.project).ok
    /\ pc' = "aborted"
    /\ error_log' = error_log \cup {Head(work_queue)}
    /\ UNCHANGED <<cacheVars, loadVars, work_items, config, project_cache, all_work_items,
                   call_parents, call_children, call_failed,
                   prIdVars, sumVars, diffVars, mainVars>>

\* line 136 entered
BeginSummarize ==
    /\ pc = "loop"
    /\ work_queue = <<>>
    /\ pc' = "summarize"
    /\ summarize_calls' = summarize_calls + 1
    /\ sum_pos' = 0
    /\ summary' = <<>>
    /\ UNCHANGED <<cacheVars, loadVars, work_items, config, project_cache, all_work_items,
                   call_parents, call_children, call_failed, error_log,
                   prIdVars, pr_info_list, diffVars, work_queue, all_prs,
                   commit_diffs, abandoned_seen, diff_requested, saved>>

\* lines 139-140 with save_results (lines 28-48)
SaveResults ==
    /\ pc = "summarized"
    /\ saved' = [written |-> TRUE, summary |-> summary, all_prs |-> all_prs,
                 commit_diffs |-> commit_diffs]
    /\ pc' = "done"
    /\ UNCHANGED <<cacheVars, loadVars, work_items, config, project_cache, all_work_items,
                   call_parents, call_children, call_failed, error_log,
                   prIdVars, sumVars, diffVars, work_queue, all_prs,
                   commit_diffs, abandoned_seen, diff_requested,
                   summarize_calls>>

Next ==
    \/ FeatureChildren
    \/ ChildItems
    \/ ClosureRaises
    \/ BeginLoop
    \/ ProcessWorkItem
    \/ AbortOnProject
    \/ BeginSummarize
    \/ SummarizeStep
    \/ SummarizeRaises
    \/ SummarizeReturn
    \/ SaveResults

Spec == Init /\ [][Next]_vars

(***************************************************************************)
(* load_config (config.py 31-68) and the closure's read of its result      *)
(* (workitem.py 70).  A JSON value is a record tagged by its shape;        *)
(* a string is kept as the pieces its commas separate.                     *)
(***************************************************************************)
JsonString(pieces) == [shape |-> "string", pieces |-> pieces]
JsonList(items) == [shape |-> "list", items |-> items]
JsonNumber(n) == [shape |-> "number", value |-> n]
JsonObject(keys) == [shape |-> "object", keys |-> keys]
JsonBool(b) == [shape |-> "bool", value |-> b]
IntItem(n) == [kind |-> "int", value |-> n]
StrItem(text) == [kind |-> "str", text |-> text]

RECURSIVE JoinPieces(_)
\* the text of a string: its pieces with the commas between them
JoinPieces(pieces) ==
    IF Len(pieces) = 1 THEN pieces[1]
    ELSE pieces[1] \o <<Comma>> \o JoinPieces(Tail(pieces))

\* `not id_input` (config.py 53), the negation of bool(value) (config.py 45)
Falsy(input) ==
    CASE input.shape = "string" -> JoinPieces(input.pieces) = <<>>
      [] input.shape = "list" -> input.items = <<>>
      [] input.shape = "number" -> input.value = 0
      [] input.shape = "object" -> input.keys = {}
      [] input.shape = "bool" -> ~input.value

ParseFailed == [ok |-> FALSE, ids |-> <<>>]

RECURSIVE ParseItems(_, _)
\* config.py 58: [int(id) for id in id_input if str(id).strip()]: the test
\* is on the stripped text, the conversion on the item as it is
ParseItems(items, ids) ==
    IF items = <<>> THEN [ok |-> TRUE, ids |-> ids]
    ELSE LET it == Head(items) IN
         IF it.kind = "int" THEN ParseItems(Tail(items), Append(ids, it.value))
         ELSE IF Strip(it.text) = <<>> THEN ParseItems(Tail(items), ids)
         ELSE IF IsDecimal(it.text)
              THEN ParseItems(Tail(items), Append(ids, DecimalValue(it.text)))
              ELSE ParseFailed

RECURSIVE ParsePieces(_, _)
\* config.py 62: [int(id.strip()) for id in id_input.split(',') if id.strip()]
ParsePieces(pieces, ids) ==
    IF pieces = <<>> THEN [ok |-> TRUE, ids |-> ids]
    ELSE LET text == Strip(Head(pieces)) IN
         IF text = <<>> THEN ParsePieces(Tail(pieces), ids)
         ELSE IF IsDecimal(text)
              THEN ParsePieces(Tail(pieces), Append(ids, DecimalValue(text)))
              ELSE ParseFailed

\* _parse_id_list (config.py 51-68); ok is FALSE when it raises.  True is
\* an int to isinstance, and int(True) is 1
ParseIdList(input) ==
    IF Falsy(input) THEN [ok |-> TRUE, ids |-> <<>>]
    ELSE CASE input.shape = "list" -> ParseItems(input.items, <<>>)
           [] input.shape = "string" -> ParsePieces(input.pieces, <<>>)
           [] input.shape = "number" -> [ok |-> TRUE, ids |-> <<input.value>>]
           [] input.shape = "bool" -> [ok |-> TRUE, ids |-> <<1>>]
           [] OTHER -> ParseFailed

\* config.get(key, '')
GetOrEmpty(file, key) ==
    IF key \in DOMAIN file THEN file[key] ELSE JsonString(<<<<>>>>)

\* config.get(key, False)
GetOrFalse(file, key) ==
    IF key \in DOMAIN file THEN file[key] ELSE JsonBool(FALSE)

NormalizedKeys == {"parent_feature_ids", "backlog_item_ids", "ignore_ids"}

IsOnlyCompletedItem == "is_only_completed_item"

Normalized(ids) == JsonList([i \in 1..Len(ids) |-> IntItem(ids[i])])

\* load_config (config.py 31-49): the file's object with the three id
\* lists replaced by their parsed form (lines 42-44) and
\* is_only_completed_item by its truth value (line 45), or a raise
LoadConfig(file) ==
    LET parsed == [k \in NormalizedKeys |-> ParseIdList(GetOrEmpty(file, k))] IN
    IF \E k \in NormalizedKeys : ~parsed[k].ok THEN [ok |-> FALSE]
    ELSE [ok |-> TRUE,
          config |-> [k \in DOMAIN file \cup NormalizedKeys
                               \cup {IsOnlyCompletedItem} |->
                        IF k \in NormalizedKeys THEN Normalized(parsed[k].ids)
                        ELSE IF k = IsOnlyCompletedItem
                        THEN JsonBool(~Falsy(GetOrFalse(file, k)))
                        ELSE file[k]]]

\* workitem.py 70: set(config['backlog_ids']); a missing key, a number and
\* a boolean raise, a string gives its characters, an object its keys
BacklogRead(cfg) ==
    IF "backlog_ids" \notin DOMAIN cfg THEN [raised |-> TRUE, members |-> {}]
    ELSE LET v == cfg["backlog_ids"] IN
         CASE v.shape \in {"number", "bool"} -> [raised |-> TRUE, members |-> {}]
           [] v.shape = "list" -> [raised |-> FALSE, members |-> Range(v.items)]
           [] v.shape = "string" ->
                [raised |-> FALSE,
                 members |-> {StrItem(<<c>>) : c \in Range(JoinPieces(v.pieces))}]
           [] v.shape = "object" ->
                [raised |-> FALSE, members |-> {StrItem(k) : k \in v.keys}]

\* the values a configuration file can give an id list
Pieces == {<<>>, <<1>>, <<1, 2>>, <<Space, 2>>, <<Letter>>, <<Minus, 1>>}
Items == {IntItem(1), IntItem(2), StrItem(<<3>>), StrItem(<<Separator, 3>>)}

RawValues ==
    {JsonString(p) : p \in SeqsUpTo(Pieces, MaxPieces) \ {<<>>}}
        \cup {JsonList(l) : l \in SeqsUpTo(Items, MaxPieces)}
        \cup {JsonNumber(n) : n \in 0..MaxId}
        \cup {JsonObject({}), JsonObject({<<Letter>>})}

\* the file's object: the key of each entry mapped to its value
FileOf(entries) ==
    [k \in {e[1] : e \in entries} |-> (CHOOSE e \in entries : e[1] = k)[2]]

Entries(key, values) == {{}} \cup {{<<key, v>>} : v \in values}

InitConfig ==
    /\ work_items = [n \in WorkItemIds |-> [id |-> n]]
    /\ config = NoConfig
    /\ project_cache = <<>>
    /\ pc = "load"
    /\ all_work_items = {}
    /\ call_parents = <<>>
    /\ call_children = {}
    /\ call_failed = {}
    /\ error_log = {}
    /\ InitPrIdsIdle
    /\ InitSummaryIdle
    /\ InitDiffIdle
    /\ InitMainIdle
    /\ \E a \in Entries("backlog_ids", RawValues),
          b \in Entries("backlog_item_ids",
                        {JsonString(<<<<1>>, <<2>>>>), JsonObject({<<Letter>>})}),
          c \in Entries("parent_feature_ids",
                        {JsonList(<<>>), JsonString(<<<<Letter>>>>)}),
          d \in Entries(IsOnlyCompletedItem,
                        {JsonBool(TRUE), JsonString(<<<<>>>>)}) :
         config_file = FileOf(a \cup b \cup c \cup d)
    /\ loaded = NotLoaded
    /\ backlog_read = NothingRead
    /\ InitCacheIdle

\* main.py 65: config = config_manager.load_config()
CallLoadConfig ==
    /\ pc = "load"
    /\ loaded' = LoadConfig(config_file)
    /\ pc' = IF loaded'.ok THEN "loaded" ELSE "load_failed"
    /\ UNCHANGED <<cacheVars, closureVarsButPc, prIdVars, sumVars, diffVars, mainVars,
                   config_file, backlog_read>>

\* workitem.py 63-70 with no feature configured: the backlog ids are read
ReadBacklogIds ==
    /\ pc = "loaded"
    /\ backlog_read' = BacklogRead(loaded.config)
    /\ pc' = IF backlog_read'.raised THEN "closure_raised" ELSE "backlog_read"
    /\ UNCHANGED <<cacheVars, closureVarsButPc, prIdVars, sumVars, diffVars, mainVars,
                   config_file, loaded>>

NextConfig == CallLoadConfig \/ ReadBacklogIds

SpecConfig == InitConfig /\ [][NextConfig]_vars

(***************************************************************************)
(* get_project_and_base_url (workitem.py 23-34) called again and again on  *)
(* one WorkItemManager, the service free to answer any project or to fail. *)
(***************************************************************************)
ProjectAnswers == {"ProjA", "ProjB", None, "", LookupFailed}

InitCache ==
    /\ work_items = [n \in WorkItemIds |-> [id |-> n]]
    /\ config = NoConfig
    /\ project_cache = <<>>
    /\ pc = "cache_calls"
    /\ all_work_items = {}
    /\ call_parents = <<>>
    /\ call_children = {}
    /\ call_failed = {}
    /\ error_log = {}
    /\ InitPrIdsIdle
    /\ InitSummaryIdle
    /\ InitDiffIdle
    /\ InitMainIdle
    /\ InitLoadIdle
    /\ InitCacheIdle

CallGetProjectAndBaseUrl ==
    /\ pc = "cache_calls"
    /\ \E work_item_id \in WorkItemIds, answer \in ProjectAnswers :
         LET w == GetWorkItemProject(answer)
             r == GetProjectAndBaseUrl(project_cache, work_item_id, w.project)
         IN /\ project_cache' = r.cache
            /\ call_id' = work_item_id
            /\ returned' = [raised |-> ~r.ok, project |-> r.project]
            /\ lookup_issued' = r.lookup
            /\ error_log' = IF r.lookup /\ w.logged
                            THEN error_log \cup {work_item_id} ELSE error_log
    /\ UNCHANGED <<work_items, config, pc, all_work_items, call_parents,
                   call_children, call_failed, work_item, pr_ids,
                   sumVars, diffVars, mainVars, loadVars>>

NextCache == CallGetProjectAndBaseUrl

SpecCache == InitCache /\ [][NextCache]_vars

(***************************************************************************)
(* Claims on the closure (SpecClosure) and on get_child_work_items         *)
(* (SpecChildren).                                                         *)
(***************************************************************************)
Parents == Range(config.parent_feature_ids)
Backlog == Range(config.backlog_ids)
Ignore == Range(config.ignore_ids)

ClosureReturned == pc = "closure_done"

\* C1 as stated: with every fetch succeeding the closure is
\* (parents + childrenOf(parents) + backlog + childrenOf(parents + backlog))
\* minus ignore, the second expansion being taken over parents + backlog.
C1_ClosureOverParentsAndBacklog ==
    (ClosureReturned /\ error_log = {}) =>
        all_work_items =
            (Parents \cup ChildrenOf(Parents) \cup Backlog
                \cup ChildrenOf(Parents \cup Backlog)) \ Ignore

\* C1 amended: with every fetch succeeding the closure is
\* (parents + childrenOf(parents) + backlog
\*   + childrenOf(childrenOf(parents) + backlog)) minus ignore: the second
\* expansion is taken over the children of the parents and the backlog ids,
\* so it reaches the grandchildren of the parents.
C1_ClosureOverCollected ==
    (ClosureReturned /\ error_log = {}) =>
        all_work_items =
            (Parents \cup ChildrenOf(Parents) \cup Backlog
                \cup ChildrenOf(ChildrenOf(Parents) \cup Backlog)) \ Ignore

\* a run without failures that returns a grandchild of a parent which is
\* neither a child of a parent nor configured
C1_Witness ==
    /\ ClosureReturned
    /\ error_log = {}
    /\ \E g \in all_work_items :
         /\ g \in ChildrenOf(ChildrenOf(Parents))
         /\ g \notin Parents \cup Backlog \cup ChildrenOf(Parents \cup Backlog)

\* C3: no id of ignore_ids is in the set get_all_related_work_items
\* returns, whether it is a parent, a backlog id or a child reached in
\* either expansion.
C3_IgnoredExcluded ==
    ClosureReturned => all_work_items \cap Ignore = {}

\* a returned closure whose ignore list names a configured parent or backlog
\* id and a child that the second expansion reached
C3_Witness ==
    /\ ClosureReturned
    /\ Ignore \cap (Parents \cup Backlog) # {}
    /\ Ignore \cap call_children # {}
    /\ all_work_items # {}

\* C5: get_child_work_items returns, and its result holds every
\* hierarchy-forward child of every parent whose iteration did not fail,
\* wherever the failing parents stand in the list.
C5_PartialFailure ==
    pc = "returned" =>
        \A i \in 1..Len(call_parents) :
            i \notin call_failed =>
                ChildrenOf({call_parents[i]}) \subseteq call_children

\* a call in which a failing parent stands before a parent with children
\* that was fetched, and the children are in the result
C5_Witness ==
    /\ pc = "returned"
    /\ \E i, j \in 1..Len(call_parents) :
         /\ i < j
         /\ call_parents[i] # call_parents[j]
         /\ i \in call_failed
         /\ j \notin call_failed
         /\ ChildrenOf({call_parents[j]}) # {}
         /\ ChildrenOf({call_parents[j]}) \subseteq call_children

(***************************************************************************)
(* Claims on get_pull_request_ids (SpecPrIds).                             *)
(***************************************************************************)
\* positions of the fetched relations that are pull-request links with an id
PrPositions(rels) ==
    {i \in 1..Len(rels) : rels[i].name = PullRequestName /\ IsDecimal(rels[i].url)}

PrIdAt(rels, i) == DecimalValue(rels[i].url)

FirstPosition(rels, n) == Min({i \in PrPositions(rels) : PrIdAt(rels, i) = n})

\* C6: get_pull_request_ids returns the ids of the pull-request relations in
\* the order of the fetched relations, each id once at the place of its
\* first occurrence; it returns the empty list when the work item cannot be
\* fetched or has no relations field.
C6_PullRequestIdsInOrder ==
    pc = "pr_ids_returned" =>
        IF ~work_item.found \/ "relations" \notin DOMAIN work_item.json
        THEN pr_ids = <<>>
        ELSE LET rels == work_item.json.relations IN
             /\ Range(pr_ids) = {PrIdAt(rels, i) : i \in PrPositions(rels)}
             /\ \A a, b \in 1..Len(pr_ids) :
                   a < b => FirstPosition(rels, pr_ids[a])
                                < FirstPosition(rels, pr_ids[b])

\* a call that returned two ids, the first of them linked twice, one of the
\* links standing after the link of the second id
C6_Witness ==
    /\ pc = "pr_ids_returned"
    /\ work_item.found
    /\ "relations" \in DOMAIN work_item.json
    /\ Len(pr_ids) = 2
    /\ LET rels == work_item.json.relations IN
       \E i, j, k \in PrPositions(rels) :
           /\ i < j /\ j < k
           /\ PrIdAt(rels, i) = pr_ids[1]
           /\ PrIdAt(rels, j) = pr_ids[2]
           /\ PrIdAt(rels, k) = pr_ids[1]

(***************************************************************************)
(* Claims on summarize_pr_info (SpecSummary).                              *)
(***************************************************************************)
InSummarize == pc \in {"summarize", "summarized"}

\* positions of the records processed so far that belong to a branch
Processed(repo, branch) ==
    {i \in 1..sum_pos :
        /\ ~IsNone(pr_info_list[i])
        /\ pr_info_list[i].repository = repo
        /\ pr_info_list[i].target_branch = branch}

Instant(i) == Strptime(pr_info_list[i].created_date)

\* the (created_date, commit_id) of record j is that of a record processed
\* before it
SeenBefore(done, j) ==
    \E k \in done : k < j /\ CommitOf(pr_info_list[k]) = CommitOf(pr_info_list[j])

\* C8: the comparisons are strict: of two records of one repository and
\* branch with the same creation instant the later one is recorded neither
\* as oldest nor as newest (what is recorded is its date and commit id only
\* if an earlier record had the very same), and while all records of the
\* branch share one instant the first processed is both the oldest and the
\* newest.
C8_TiesKeepFirst ==
    InSummarize =>
        \A repo \in DOMAIN summary : \A branch \in DOMAIN summary[repo].branches :
            LET info == summary[repo].branches[branch]
                done == Processed(repo, branch)
            IN /\ \A i, j \in done :
                     (i < j /\ Instant(i) = Instant(j)) =>
                         /\ info.oldest_commit = CommitOf(pr_info_list[j])
                               => SeenBefore(done, j)
                         /\ info.newest_commit = CommitOf(pr_info_list[j])
                               => SeenBefore(done, j)
               /\ (\A i, j \in done : Instant(i) = Instant(j)) =>
                     /\ info.oldest_commit = CommitOf(pr_info_list[Min(done)])
                     /\ info.newest_commit = CommitOf(pr_info_list[Min(done)])

\* two records of one branch, written ".5" and ".50" of the same second,
\* have been processed and the first is recorded as oldest and newest
C8_Witness ==
    /\ InSummarize
    /\ sum_pos = 2
    /\ \E repo \in DOMAIN summary : \E branch \in DOMAIN summary[repo].branches :
         /\ Processed(repo, branch) = {1, 2}
         /\ Instant(1) = Instant(2)
         /\ pr_info_list[1].created_date # pr_info_list[2].created_date
         /\ summary[repo].branches[branch].oldest_commit = CommitOf(pr_info_list[1])
         /\ summary[repo].branches[branch].newest_commit = CommitOf(pr_info_list[1])

\* the lists that hold the elements of list in another order
Reorderings(list) ==
    {[i \in 1..Len(list) |-> list[p[i]]] :
        p \in {q \in [1..Len(list) -> 1..Len(list)] :
                  \A i, j \in 1..Len(list) : q[i] = q[j] => i = j}}

BranchesOf(sum) == [repo \in DOMAIN sum |-> sum[repo].branches]

InstantsOf(sum) ==
    [repo \in DOMAIN sum |->
        [branch \in DOMAIN sum[repo].branches |->
            <<Strptime(sum[repo].branches[branch].oldest_commit.date),
              Strptime(sum[repo].branches[branch].newest_commit.date)>>]]

\* no two records of one repository and branch share a creation instant
NoTies(list) ==
    \A i, j \in 1..Len(list) :
        (/\ i # j
         /\ ~IsNone(list[i]) /\ ~IsNone(list[j])
         /\ list[i].repository = list[j].repository
         /\ list[i].target_branch = list[j].target_branch)
            => Strptime(list[i].created_date) # Strptime(list[j].created_date)

\* C9 as stated: the oldest and newest entries (timestamp and commit id) of
\* every branch are the same for every order of the input records.
C9_OrderIndependent ==
    pc = "summarized" =>
        \A other \in Reorderings(pr_info_list) :
            BranchesOf(SummarizeFold(<<>>, other)) = BranchesOf(summary)

\* C9 amended: for every order of the input records the oldest and newest
\* creation instants of every branch are the same; the recorded timestamp
\* text and commit id are the same too when no two records of one
\* repository and branch share a creation instant.
C9_InstantsOrderIndependent ==
    pc = "summarized" =>
        \A other \in Reorderings(pr_info_list) :
            /\ InstantsOf(SummarizeFold(<<>>, other)) = InstantsOf(summary)
            /\ NoTies(pr_info_list) =>
                  BranchesOf(SummarizeFold(<<>>, other)) = BranchesOf(summary)

\* a summary of two records of one branch, the newer one given first
C9_Witness ==
    /\ pc = "summarized"
    /\ Len(pr_info_list) = 2
    /\ \E repo \in DOMAIN summary : \E branch \in DOMAIN summary[repo].branches :
         /\ Processed(repo, branch) = {1, 2}
         /\ Instant(1) > Instant(2)
         /\ summary[repo].branches[branch].oldest_commit = CommitOf(pr_info_list[2])
         /\ summary[repo].branches[branch].newest_commit = CommitOf(pr_info_list[1])

\* the total order of the reviewer names (that of the strings)
NameOrder == <<"alice", "bob">>
NameRank(name) == CHOOSE i \in 1..Len(NameOrder) : NameOrder[i] = name

\* C10: the reviewers of each repository are emitted in a total order of
\* the names, the same list for the same set of names on every run.
C10_ReviewersInTotalOrder ==
    pc = "summarized" =>
        \A repo \in DOMAIN summary :
            \A i, j \in 1..Len(summary[repo].reviewers) :
                i < j => NameRank(summary[repo].reviewers[i])
                            < NameRank(summary[repo].reviewers[j])

(***************************************************************************)
(* Claims on get_commit_diff_stats_classified (SpecDiff).                  *)
(***************************************************************************)
\* positions of the files that are not excluded and got a 200 response
Counted ==
    {i \in 1..Len(diff_paths) :
        ~Excluded(diff_paths[i], exclude_dirs) /\ file_resps[i].status = 200}

RECURSIVE SumOver(_, _)
\* the sum of f over the positions in S
SumOver(f, S) ==
    IF S = {} THEN 0 ELSE f[Min(S)] + SumOver(f, S \ {Min(S)})

TagOf(i) ==
    LET a == file_resps[i].addLineCount
        d == file_resps[i].deleteLineCount
    IN CASE a > 0 /\ d > 0 -> "modified"
         [] a > 0 /\ d = 0 -> "added"
         [] a = 0 /\ d > 0 -> "deleted"
         [] OTHER -> "unchanged"

Tagged(tag) == {i \in Counted : TagOf(i) = tag}

\* C7: every file that is not excluded and got a 200 response is listed
\* once, in order, with its counts and its tag; the modified total is the
\* sum of added+deleted over the modified files, the added total the sum
\* of added over the added files, the deleted total the sum of deleted
\* over the deleted files; an unchanged file is listed and counted nowhere.
C7_Classified ==
    pc = "diff_returned" =>
        /\ diff_stats.files =
              [k \in 1..Cardinality(Counted) |->
                  LET i == CHOOSE i \in Counted :
                              Cardinality({j \in Counted : j <= i}) = k
                  IN [path |-> diff_paths[i],
                      added |-> file_resps[i].addLineCount,
                      deleted |-> file_resps[i].deleteLineCount,
                      type |-> TagOf(i)]]
        /\ diff_stats.modified =
              SumOver([i \in 1..Len(diff_paths) |->
                          file_resps[i].addLineCount
                              + file_resps[i].deleteLineCount],
                      Tagged("modified"))
        /\ diff_stats.added =
              SumOver([i \in 1..Len(diff_paths) |-> file_resps[i].addLineCount],
                      Tagged("added"))
        /\ diff_stats.deleted =
              SumOver([i \in 1..Len(diff_paths) |-> file_resps[i].deleteLineCount],
                      Tagged("deleted"))

\* a returned diff that lists a modified file and an unchanged file
C7_Witness ==
    /\ pc = "diff_returned"
    /\ Tagged("modified") # {}
    /\ Tagged("unchanged") # {}
    /\ Len(diff_stats.files) = 2
    /\ diff_stats.modified > 0
    /\ diff_stats.added = 0


\* the branch entry has its oldest and its newest commit set, each the
\* (created_date, commit_id) of a processed record of that repository and
\* branch, the oldest date not after the newest
EntrySet(repo, branch) ==
    LET info == summary[repo].branches[branch]
        done == Processed(repo, branch)
    IN /\ ~IsNone(info.oldest_commit.date)
       /\ ~IsNone(info.newest_commit.date)
       /\ \E i \in done : info.oldest_commit = CommitOf(pr_info_list[i])
       /\ \E i \in done : info.newest_commit = CommitOf(pr_info_list[i])
       /\ Strptime(info.oldest_commit.date) <= Strptime(info.newest_commit.date)

\* the branch entry is the one lines 62-66 made for the record whose date
\* line 72 then refused, the first record of its branch
EntryLeftEmpty(repo, branch) ==
    /\ pc = "summarize_raised"
    /\ pr_info_list[sum_pos + 1].repository = repo
    /\ pr_info_list[sum_pos + 1].target_branch = branch
    /\ Processed(repo, branch) = {}
    /\ summary[repo].branches[branch]
          = [oldest_commit |-> EmptyCommit, newest_commit |-> EmptyCommit]

\* C15 as stated: whatever the fold has done, every branch entry of the
\* summary has its oldest and its newest commit set from the processed
\* records of its repository and branch, the oldest date not after the
\* newest; no entry is ever left empty.
C15_BranchEntriesSet ==
    \A repo \in DOMAIN summary : \A branch \in DOMAIN summary[repo].branches :
        EntrySet(repo, branch)

\* C15 amended: after every step of the fold that completes, every branch
\* entry is set so; a step whose strptime raises leaves the entry it has
\* just made for a new branch with an empty oldest and newest, every other
\* entry set, and the call ends there.
C15_BranchEntriesSetUnlessRaised ==
    /\ InSummarize =>
          \A repo \in DOMAIN summary : \A branch \in DOMAIN summary[repo].branches :
              EntrySet(repo, branch)
    /\ \A repo \in DOMAIN summary : \A branch \in DOMAIN summary[repo].branches :
          EntrySet(repo, branch) \/ EntryLeftEmpty(repo, branch)
    /\ pc = "summarize_raised" =>
          /\ ~ENABLED SummarizeStep
          /\ ~ENABLED SummarizeReturn

\* the fold has processed two records of one branch, the one of the later
\* instant first
C15_Witness ==
    /\ pc = "summarize"
    /\ sum_pos = 2
    /\ Len(pr_info_list) = 2
    /\ \E repo \in DOMAIN summary : \E branch \in DOMAIN summary[repo].branches :
         /\ Processed(repo, branch) = {1, 2}
         /\ Instant(1) > Instant(2)
         /\ summary[repo].branches[branch].oldest_commit = CommitOf(pr_info_list[2])
         /\ summary[repo].branches[branch].newest_commit = CommitOf(pr_info_list[1])

\* the files whose content diff got a non-success response
Skipped ==
    {i \in 1..Len(diff_paths) :
        ~Excluded(diff_paths[i], exclude_dirs) /\ file_resps[i].status # 200}

\* the entries of list at the positions other than those in S
Without(list, S) ==
    LET pos == SetToSeq((1..Len(list)) \ S) IN [k \in 1..Len(pos) |-> list[pos[k]]]

\* C13: a non-success response for one file skips that file only: the call
\* returns, and what it returns is what it returns for the same changes
\* without the failed files: they are in neither the list nor a total, and
\* every other file is classified and counted.
C13_FailedFileSkipped ==
    /\ pc = "call_diff" => ENABLED CallDiffStats
    /\ pc = "diff_returned" =>
         /\ diff_stats =
               GetCommitDiffStatsClassified(Without(diff_paths, Skipped),
                                            Without(file_resps, Skipped),
                                            exclude_dirs)
         /\ Len(diff_stats.files) = Cardinality(Counted)
         /\ \A i \in Counted :
               \E k \in 1..Len(diff_stats.files) :
                  /\ diff_stats.files[k].path = diff_paths[i]
                  /\ diff_stats.files[k].added = file_resps[i].addLineCount
                  /\ diff_stats.files[k].deleted = file_resps[i].deleteLineCount

\* a returned diff of two different files, one that failed and one that is
\* counted in a total
C13_Witness ==
    /\ pc = "diff_returned"
    /\ Len(diff_paths) = 2
    /\ diff_paths[1] # diff_paths[2]
    /\ Cardinality(Skipped) = 1
    /\ Cardinality(Counted) = 1
    /\ Len(diff_stats.files) = 1
    /\ diff_stats.added + diff_stats.deleted + diff_stats.modified > 0

(***************************************************************************)
(* Claims on main (Spec)                                                   *)
(***************************************************************************)
\* C2: a failure confined to one work item of the closure never aborts the
\* run; the loop goes on and the run reaches summarization and saving.
\* A run that aborts inside the loop, at the work item at the head of the
\* queue, aborts on the project lookup of line 91 for that one work item.
C2_ItemFailureNeverAborts == ~(pc = "aborted" /\ work_queue # <<>>)

\* the pull request details with status "abandoned", over their other fields
AbandonedVariants ==
    {PrDetails("abandoned", r) : r \in BOOLEAN}
        \cup {[PrDetails("abandoned", TRUE) EXCEPT
                 !.targetRefName = t, !.reviewers = rv] :
                t \in {RefsHeads \o <<"d", "e", "v">>, <<"m", "a", "i", "n">>,
                       <<"x">> \o RefsHeads \o <<"y">>},
                rv \in {<<>>, <<[displayName |-> "bob"], [displayName |-> "alice"]>>}}

\* C4: an abandoned pull request contributes to no output: extract_pr_info
\* gives no record for it whatever its other fields, and main puts it in
\* neither pr_info_list, all_prs nor commit_diffs and requests no diff for it.
C4_AbandonedContributesNothing ==
    /\ \A d \in AbandonedVariants : IsNone(ExtractPrInfo(d))
    /\ \A i \in 1..Len(pr_info_list) : pr_info_list[i].status # "abandoned"
    /\ \A i \in 1..Len(all_prs) : all_prs[i].pull_request.status # "abandoned"
    /\ DOMAIN commit_diffs \cap abandoned_seen = {}
    /\ diff_requested \cap abandoned_seen = {}
    /\ saved.written =>
         /\ \A i \in 1..Len(saved.all_prs) :
               saved.all_prs[i].pull_request.status # "abandoned"
         /\ DOMAIN saved.commit_diffs \cap abandoned_seen = {}

\* a finished run that met an abandoned pull request and kept another one
C4_Witness ==
    /\ pc = "done"
    /\ abandoned_seen # {}
    /\ all_prs # <<>>
    /\ DOMAIN commit_diffs # {}

\* C11: summarize_pr_info and save_results, called with no input collected,
\* end in a precondition error: summarize_pr_info never returns, and
\* save_results never writes, on an empty record list.
C11_EmptyInputRejected ==
    /\ pc \in {"summarized", "done"} => pr_info_list # <<>>
    /\ saved.written => saved.all_prs # <<>>

(***************************************************************************)
(* Claims on load_config (SpecConfig)                                      *)
(***************************************************************************)
IdListKeys == NormalizedKeys \cup {"backlog_ids"}

SupportedShape(v) == v.shape \in {"string", "list", "number"}

\* C12: the config load_config hands to the closure has every id list, the
\* backlog ids included, as a list of integers: the closure's read of the
\* backlog ids never raises and gives integers only, and a file with an
\* id list of an unsupported shape never gets past load_config.
C12_BacklogNormalized ==
    /\ pc # "closure_raised"
    /\ pc = "backlog_read" => \A m \in backlog_read.members : m.kind = "int"
    /\ pc \in {"loaded", "backlog_read"} =>
         \A k \in DOMAIN config_file \cap IdListKeys :
            SupportedShape(config_file[k])

(***************************************************************************)
(* Claims on the project cache (SpecCache)                                 *)
(***************************************************************************)
\* what one step leaves of the cache and what the call of that step gave
CacheKept ==
    /\ \A id \in DOMAIN project_cache :
         /\ id \in DOMAIN project_cache'
         /\ project_cache'[id] = project_cache[id]
         /\ call_id' = id =>
              /\ ~lookup_issued'
              /\ ~returned'.raised
              /\ returned'.project = project_cache[id]
    /\ returned'.raised => project_cache' = project_cache
    /\ ~returned'.raised =>
         /\ call_id' \in DOMAIN project_cache'
         /\ project_cache'[call_id'] = returned'.project

\* C14: the project cache maps ids to project names and is never
\* invalidated: an entry is never changed or removed, a call for a cached
\* id returns the cached project without a lookup whatever the service
\* would answer, and a call that fails stores nothing.
C14_CacheNeverInvalidated ==
    /\ [](\A id \in DOMAIN project_cache : ~NoProject(project_cache[id]))
    /\ [][CacheKept]_vars

\* a call answered from the cache while the cache holds two projects
C14_Witness ==
    /\ pc = "cache_calls"
    /\ ~lookup_issued
    /\ ~returned.raised
    /\ call_id \in DOMAIN project_cache
    /\ \E id \in DOMAIN project_cache :
         project_cache[id] # project_cache[call_id]
    /\ DOMAIN project_cache # WorkItemIds

(***************************************************************************)
(* Claims on the order of main's calls (Spec)                              *)
(***************************************************************************)
AfterLoop == {"summarize", "summarized", "done"}

\* main has left through its except clause (main.py 142-144)
Raised == {"aborted", "summarize_raised"}

\* what every step of main keeps to
CallOrderStep ==
    \* the loop takes the work items of the closure one by one
    /\ (pc = "closure_done" /\ pc' = "loop") =>
          /\ Range(work_queue') = all_work_items
          /\ Len(work_queue') = Cardinality(all_work_items)
    /\ (pc = "loop" /\ work_queue' # work_queue) =>
          /\ work_queue' = Tail(work_queue)
          /\ call_id' = Head(work_queue)
    \* summarize_pr_info is entered from the finished loop only, and the loop
    \* is never entered again
    /\ (pc # "summarize" /\ pc' = "summarize") =>
          (pc = "loop" /\ work_queue = <<>>)
    /\ summarize_calls' # summarize_calls =>
          /\ pc = "loop" /\ work_queue = <<>> /\ pc' = "summarize"
          /\ summarize_calls' = summarize_calls + 1
    /\ pc \in AfterLoop =>
          /\ pc' \in AfterLoop \cup {"summarize_raised"}
          /\ pr_info_list' = pr_info_list
    \* only the one call of summarize_pr_info can raise after the loop
    /\ (pc # "summarize_raised" /\ pc' = "summarize_raised") => pc = "summarize"
    /\ pc \in {"summarized", "done"} => pc' \in {"summarized", "done"}
    \* save_results writes once, what summarize_pr_info returned
    /\ saved' # saved =>
          /\ ~saved.written
          /\ pc = "summarized" /\ pc' = "done"
          /\ saved' = [written |-> TRUE, summary |-> summary,
                       all_prs |-> all_prs, commit_diffs |-> commit_diffs]
    /\ pc = "done" => (pc' = "done" /\ saved' = saved)
    \* after an exception nothing more happens
    /\ pc \in Raised => (pc' = pc /\ saved' = saved)

\* main has returned or has left through its except clause
RunEnded == pc \in {"done"} \cup Raised

====
